---- MODULE Spec2Model ----
(***************************************************************************)
(* Model of VersionChecker (src/src/index.ts): the check / compare / retry *)
(* state machine, the recurring timer and the listener registry.           *)
(*                                                                         *)
(* JavaScript runs every handler to its next await, so one action is one   *)
(* run-to-completion step: a call of start(), stop(), check(), on(), off(),*)
(* a tick of the recurring timer, a fetch promise settling, or a retry     *)
(* backoff elapsing.  A check() invocation together with the recursive     *)
(* check() calls of its retry chain occupies one slot of `calls`.          *)
(*                                                                         *)
(* emit() runs the registered callbacks inside the step that emits; a      *)
(* callback returns, throws, or calls on(), off(), start(), stop() or      *)
(* check() of the instance.  What an invocation emitted is recorded in its *)
(* slot, for one invocation at a time (`watched`).                         *)
(***************************************************************************)
EXTENDS Naturals, Integers, Sequences, FiniteSets, TLC

VARIABLES
    supplied,        \* the options object the constructor was called with
    options,         \* this.options
    returned,        \* the object the last getOptions() returned, if any
    versionTag,      \* this.versionTag
    timer,           \* this.timer !== null
    retryCount,      \* this.retryCount
    leaked,          \* intervals still armed whose handle this.timer no longer holds
    eventListeners,  \* this.eventListeners, each Set in insertion order
    calls,           \* the check() invocations: position, emitted events, outcome
    budget,          \* calls of start() and check() the callbacks will still make
    everResolved,    \* history: some check() of this instance has resolved
    log,             \* history: the trace of the last step
    server           \* the version the server serves, as an index of Versions

vars == <<supplied, options, returned, versionTag, timer, leaked, retryCount,
          eventListeners, calls, budget, everResolved, log, server>>

----------------------------------------------------------------------------
(* Bounds of the model *)

\* check() invocations that can be in flight at once
NumSlots == 2
\* largest configured retryTimes
MaxRetryTimes == 2
\* listener registrations held at once
MaxListeners == 1
\* registrations held at once where callbacks throw or call the instance back
MaxHandlers == 2
\* calls of start() and check() made by callbacks
MaxReentry == 1
\* versions the server goes through
MaxVersions == 2

----------------------------------------------------------------------------
(* Values *)

Null == "null"
NoErr == "none"

Slots == 1..NumSlots

\* attempts of one invocation whose events are recorded, those of a full retry
\* chain; the history of an invocation that makes one more is dropped
MaxCount == MaxRetryTimes + 1

\* a header is absent (Null), present and empty, or present with a value
HeaderValues == {Null, "", "v1"}
Headers == [etag : HeaderValues, lastModified : HeaderValues, xVersion : HeaderValues]

\* the error value fetch throws or rejects with, and the error check() builds
\* for a response that is not ok
FetchErrors == {"FetchError"}
HttpError == "HttpError"

\* the markers of the successive versions of the server
Versions == <<"v1", "v2", "v3", "v4">>

Strategies == {"etag", "last-modified", "custom", "invalid-strategy"}

EventTypes == {"update", "check", "error", "retry", "start", "stop"}
\* a callback that returns
Callbacks == {"cb1"}
\* a callback that throws, and the value it throws
Throwing == {"cbThrow"}
ListenerError == "ListenerError"
\* callbacks that call off(event, cb1), on(event, cb1), or off and then on for
\* themselves, with the event they are invoked for
Registering == {"cbOff", "cbOn", "cbAgain"}
\* callbacks that call start(), stop() or check()
Calling == {"cbStart", "cbStop", "cbCheck"}
AllCallbacks == Callbacks \cup Throwing \cup Registering \cup Calling
\* a deleted entry of a Set
Gone == "gone"

\* the default configuration
DEFAULT_OPTIONS ==
    [checkInterval |-> 60000, versionUrl |-> "/", compareStrategy |-> "etag",
     autoStart |-> TRUE, retryTimes |-> 3, retryInterval |-> 3000]

\* { ...this.DEFAULT_OPTIONS, ...options }: a field of the supplied object
\* replaces the default
Merge_DefaultsWin(given) ==
    [f \in DOMAIN DEFAULT_OPTIONS \cup DOMAIN given |->
        IF f \in DOMAIN DEFAULT_OPTIONS THEN DEFAULT_OPTIONS[f] ELSE given[f]]
Merge(given) ==
    [f \in DOMAIN DEFAULT_OPTIONS \cup DOMAIN given |->
        IF f \in DOMAIN given THEN given[f] ELSE DEFAULT_OPTIONS[f]]

\* the options objects the instance is constructed with: retryTimes, the
\* strategy and autoStart are supplied
InitStrategies == {"custom"}
OptionSpace ==
    [retryTimes : 0..MaxRetryTimes, compareStrategy : InitStrategies, autoStart : BOOLEAN]

\* options objects that supply every strategy, for one check at a time
MarkerSpace == [retryTimes : {0, 1}, compareStrategy : Strategies, autoStart : {FALSE}]

\* options objects that supply any of the fields, or none
Supplied == [checkInterval : {1000}, versionUrl : {"/version"},
             compareStrategy : {"custom"}, autoStart : BOOLEAN,
             retryTimes : {0, 1}, retryInterval : {100}]
ConfigSpace ==
    {[f \in D |-> full[f]] : D \in SUBSET DOMAIN DEFAULT_OPTIONS, full \in Supplied}

----------------------------------------------------------------------------
(* Pure functions of check() *)

\* JavaScript truthiness of a header value, and a || b
Truthy(v) == v # Null /\ v # ""
OrElse(a, b) == IF Truthy(a) THEN a ELSE b

\* the switch on options.compareStrategy; h.x is response.headers.get(x)
ExtractMarker(strategy, h) ==
    CASE strategy = "etag" -> h.etag
      [] strategy = "last-modified" -> h.lastModified
      [] strategy = "custom" -> OrElse(h.xVersion, h.etag)
      [] OTHER -> OrElse(h.etag, h.lastModified)

\* compareVersion without the test newVersionTag !== null
compareVersion_NoNullCheck(tag, newVersionTag) ==
    LET versionInfo == [currentVersion |-> tag,
                        newVersion |-> newVersionTag,
                        updateAvailable |-> FALSE]
    IN  IF tag = Null
        THEN [info |-> versionInfo, versionTag |-> newVersionTag]
        ELSE IF newVersionTag # tag
        THEN [info |-> [versionInfo EXCEPT !.updateAvailable = TRUE],
              versionTag |-> newVersionTag]
        ELSE [info |-> versionInfo, versionTag |-> tag]

\* compareVersion without the seeding branch for a null stored marker
compareVersion_NoSeed(tag, newVersionTag) ==
    LET versionInfo == [currentVersion |-> tag,
                        newVersion |-> newVersionTag,
                        updateAvailable |-> FALSE]
    IN  IF newVersionTag # Null /\ newVersionTag # tag
        THEN [info |-> [versionInfo EXCEPT !.updateAvailable = TRUE],
              versionTag |-> newVersionTag]
        ELSE [info |-> versionInfo, versionTag |-> tag]

\* compareVersion that stores a null marker over a stored one without a report
compareVersion_SilentStore(tag, newVersionTag) ==
    LET versionInfo == [currentVersion |-> tag,
                        newVersion |-> newVersionTag,
                        updateAvailable |-> FALSE]
    IN  IF tag = Null
        THEN [info |-> versionInfo, versionTag |-> newVersionTag]
        ELSE IF newVersionTag # Null /\ newVersionTag # tag
        THEN [info |-> [versionInfo EXCEPT !.updateAvailable = TRUE],
              versionTag |-> newVersionTag]
        ELSE [info |-> versionInfo, versionTag |-> newVersionTag]

\* compareVersion(newVersionTag) on stored marker `tag`: the VersionInfo it
\* returns (timestamp left out) and the stored marker it leaves
compareVersion(tag, newVersionTag) ==
    LET versionInfo == [currentVersion |-> tag,
                        newVersion |-> newVersionTag,
                        updateAvailable |-> FALSE]
    IN  IF tag = Null
        THEN [info |-> versionInfo, versionTag |-> newVersionTag]
        ELSE IF newVersionTag # Null /\ newVersionTag # tag
        THEN [info |-> [versionInfo EXCEPT !.updateAvailable = TRUE],
              versionTag |-> newVersionTag]
        ELSE [info |-> versionInfo, versionTag |-> tag]

\* the test written with <= for <
RetryAllowed_Inclusive(rc, retryTimes) == rc <= retryTimes

\* the test of the catch block: this.retryCount < this.options.retryTimes
RetryAllowed(rc, retryTimes) == rc < retryTimes

----------------------------------------------------------------------------
(* check() invocations *)

NoInfo == [currentVersion |-> Null, newVersion |-> Null, updateAvailable |-> FALSE]

\* pc: idle (slot unused), running (executing, inside the current step),
\* fetching (awaiting fetch), backoff (awaiting the retry timeout), resolved,
\* rejected.
\* watched: the history of this invocation is recorded in the fields below.
\* alone: no other invocation has been in flight since this one began.
\* zero: the retry counter was 0 when this one began.
\* checks, errors, updates: the check, error and update events it has emitted;
\* fails: its attempts that failed;
\* lastErr: the payload of its last error event; retries: the retryCount
\* payloads of its retry events, in order.
\* marker: the marker extracted from its ok response; info: the VersionInfo it
\* resolved with; error: the value it rejected with.
\* asked: the version the server served when its pending request was issued.
\* events: its check, error, retry and update events and its calls of fetch,
\* in order; echoed: each of its retry events carried the error of the error
\* event it emitted last.
IdleCall ==
    [pc |-> "idle", watched |-> FALSE, alone |-> FALSE, zero |-> FALSE,
     checks |-> 0, errors |-> 0, fails |-> 0,
     lastErr |-> NoErr, retries |-> <<>>, updates |-> 0, marker |-> Null,
     info |-> NoInfo, error |-> NoErr, asked |-> 0, events |-> <<>>, echoed |-> TRUE]

InFlight(c) == c.pc \in {"running", "fetching", "backoff"}
Settled(c) == c.pc \in {"resolved", "rejected"}

\* what the listeners of an event of check() observe, kept in the record of
\* the invocation: err is the error of an error or retry event, n the
\* retryCount of a retry event
Observe(c, type, err, n) ==
    CASE ~c.watched -> c
      [] type = "check" -> IF c.checks < MaxCount
                           THEN [c EXCEPT !.checks = @ + 1, !.events = Append(@, type)]
                           ELSE [IdleCall EXCEPT !.pc = c.pc]
      [] type = "fetch" -> [c EXCEPT !.events = Append(@, type)]
      [] type = "error" -> [c EXCEPT !.errors = @ + 1, !.lastErr = err,
                                     !.events = Append(@, type)]
      [] type = "retry" -> [c EXCEPT !.retries = Append(@, n),
                                     !.echoed = @ /\ err = c.lastErr,
                                     !.events = Append(@, type)]
      [] type = "update" -> [c EXCEPT !.updates = @ + 1, !.events = Append(@, type)]

\* where an invocation settles: a recorded one keeps its outcome, the slot of
\* any other is free again
Outcome(c, pc) == IF c.watched THEN [c EXCEPT !.pc = pc] ELSE IdleCall

----------------------------------------------------------------------------
(* The state a step works on, and the trace it leaves *)

\* the fields of the instance while a step runs. thrown: what fetch does when
\* it is called in this step; raised: the exception in flight; full: the step
\* needs more invocations than the model holds; log: the trace of the step
State(thrown) ==
    [options |-> options, versionTag |-> versionTag, timer |-> timer,
     leaked |-> leaked, retryCount |-> retryCount,
     eventListeners |-> eventListeners, calls |-> calls, budget |-> budget,
     thrown |-> thrown, raised |-> NoErr, full |-> FALSE, log |-> <<>>,
     server |-> server]

\* an entry of the trace of a step.
\* emit: an emission of `event`, with the callbacks registered for it when it
\* began (before) and when it ended (after) and those it invoked, in order;
\* check: start() called check(); arm: setInterval; clear: clearInterval;
\* begin: the emission of a start or stop `event` begins;
\* call: the emission of `event` invoked callback cb;
\* on, off: a callback called on(event, cb) or off(event, cb);
\* throw: the operation threw to its caller.
Entry(kind, event, cb, before, after, invoked) ==
    [kind |-> kind, event |-> event, cb |-> cb,
     before |-> before, after |-> after, invoked |-> invoked]
Mark(s, kind) == [s EXCEPT !.log = Append(@, Entry(kind, "", "", <<>>, <<>>, <<>>))]

\* the entries of a Set in insertion order; a deleted entry leaves a hole for
\* the iterations in progress, closed when the step ends
SelectLive(list) == SelectSeq(list, LAMBDA x : x # Gone)
Members(list) == {list[k] : k \in 1..Len(list)} \ {Gone}

----------------------------------------------------------------------------
(* The methods *)

RECURSIVE emit(_, _, _, _, _)
RECURSIVE Dispatch(_, _, _, _)
RECURSIVE Dispatch_StopAtThrow(_, _, _, _)
RECURSIVE start(_, _)
RECURSIVE stop(_)
RECURSIVE BeginCheck(_, _)
RECURSIVE CatchBlock(_, _, _)

\* on(event, callback): a Map entry that is absent reads as the empty Set
on(s, event, callback) ==
    IF callback \in Members(s.eventListeners[event])
    THEN s
    ELSE [s EXCEPT !.eventListeners[event] = Append(@, callback)]

\* off(event, callback) that deletes nothing
off_Keep(s, event, callback) == s

\* off(event, callback)
off(s, event, callback) ==
    [s EXCEPT !.eventListeners[event] =
        [k \in 1..Len(@) |-> IF @[k] = callback THEN Gone ELSE @[k]]]

\* the catch of emit() letting the exception of a callback through
Caught_Rethrow(s) == s

\* the try/catch around a callback in emit(): the exception is logged and dropped
Caught(s) == [s EXCEPT !.raised = NoErr]

\* a callback is invoked, or has called on() or off()
Noted(s, kind, event, cb) ==
    [s EXCEPT !.log = Append(@, Entry(kind, event, cb, <<>>, <<>>, <<>>))]

\* callback(eventData): what each callback of the model does when invoked
Invoke(s, event, cb) ==
    CASE cb = "cbThrow" -> [s EXCEPT !.raised = ListenerError]
      [] cb = "cbOff" -> off(Noted(s, "off", event, "cb1"), event, "cb1")
      [] cb = "cbOn" -> on(Noted(s, "on", event, "cb1"), event, "cb1")
      [] cb = "cbAgain" /\ s.budget > 0 ->
            on(off(Noted(Noted([s EXCEPT !.budget = @ - 1], "off", event, cb),
                         "on", event, cb), event, cb), event, cb)
      [] cb = "cbStart" /\ s.budget > 0 -> start([s EXCEPT !.budget = @ - 1], FALSE)
      [] cb = "cbStop" -> stop(s)
      [] cb = "cbCheck" /\ s.budget > 0 -> BeginCheck([s EXCEPT !.budget = @ - 1], FALSE)
      [] OTHER -> s

\* entry k of the Set was invoked and left state s1: an exception that left
\* the callback ends the forEach
Visited_StopAtThrow(s1, event, k, invoked) ==
    IF s1.raised # NoErr
    THEN [s |-> Caught(s1), invoked |-> invoked]
    ELSE Dispatch_StopAtThrow(s1, event, k + 1, invoked)

\* entry k of the Set was invoked and left state s1: the forEach goes on
Visited(s1, event, k, invoked) ==
    IF s1.raised # NoErr
    THEN [s |-> s1, invoked |-> invoked]
    ELSE Dispatch(s1, event, k + 1, invoked)

\* the forEach of emit() inside one try/catch: a callback that throws ends it
Dispatch_StopAtThrow(s, event, k, invoked) ==
    IF k > Len(s.eventListeners[event])
    THEN [s |-> s, invoked |-> invoked]
    ELSE IF s.eventListeners[event][k] = Gone
    THEN Dispatch_StopAtThrow(s, event, k + 1, invoked)
    ELSE Visited_StopAtThrow(
             Invoke(Noted(s, "call", event, s.eventListeners[event][k]),
                    event, s.eventListeners[event][k]),
             event, k, Append(invoked, s.eventListeners[event][k]))

\* the forEach of emit() from entry k of the Set on: entries added meanwhile
\* are visited, entries deleted before their turn are not
Dispatch(s, event, k, invoked) ==
    IF k > Len(s.eventListeners[event])
    THEN [s |-> s, invoked |-> invoked]
    ELSE IF s.eventListeners[event][k] = Gone
    THEN Dispatch(s, event, k + 1, invoked)
    ELSE Visited(
             Caught(Invoke(Noted(s, "call", event, s.eventListeners[event][k]),
                           event, s.eventListeners[event][k])),
             event, k, Append(invoked, s.eventListeners[event][k]))

\* the eventData of an emission, as invocation i of check() sees it
Payload(s, i, type, err, n) ==
    IF i = 0 THEN s ELSE [s EXCEPT !.calls[i] = Observe(@, type, err, n)]

\* an emission of start or stop begins: its place among the events of the
\* step is entered in the trace
Begun(s, type) ==
    IF type \in {"start", "stop"} THEN Noted(s, "begin", type, "") ELSE s

\* the forEach of an emission has ended with d. An emission of start or
\* stop, or one that has callbacks, is entered in the trace.
Emission(d, type, before) ==
    IF type \in {"start", "stop"} \/ before # <<>> \/ d.invoked # <<>>
    THEN [d.s EXCEPT !.log = Append(@, Entry("emit", type, "", before,
                               SelectLive(d.s.eventListeners[type]), d.invoked))]
    ELSE d.s

\* this.emit(type, payload), by invocation i of check() or (i = 0) by start()
\* or stop()
emit(s, i, type, err, n) ==
    Emission(Dispatch(Begun(Payload(s, i, type, err, n), type), type, 1, <<>>),
             type, SelectLive(s.eventListeners[type]))

\* check() returns or throws: the promise of invocation i settles
Settle(s, i, pc) == [s EXCEPT !.calls[i] = Outcome(@, pc)]

\* an exception leaves check(): the promise rejects with it
Reject(s, i, err) ==
    Settle([s EXCEPT !.raised = NoErr, !.calls[i].error = err], i, "rejected")

\* an attempt of invocation i failed
Failed(s, i) ==
    IF s.calls[i].watched THEN [s EXCEPT !.calls[i].fails = @ + 1] ELSE s

\* the catch block after a retry event emitted before the counter is incremented
RetryEmitted_ThenCounted(s, i) ==
    IF s.raised # NoErr
    THEN Reject(s, i, s.raised)
    ELSE [s EXCEPT !.retryCount = @ + 1, !.calls[i].pc = "backoff"]

\* the catch block after its retry event: the backoff timeout is set
RetryEmitted(s, i) ==
    IF s.raised # NoErr
    THEN Reject(s, i, s.raised)
    ELSE [s EXCEPT !.calls[i].pc = "backoff"]

\* the catch block after its error event, emitting retry before it
\* increments the counter
ErrorEmitted_EmitBeforeIncrement(s, i, err) ==
    IF s.raised # NoErr
    THEN Reject(s, i, s.raised)
    ELSE IF RetryAllowed(s.retryCount, s.options.retryTimes)
    THEN RetryEmitted_ThenCounted(emit(s, i, "retry", err, s.retryCount), i)
    ELSE Reject([s EXCEPT !.retryCount = 0], i, err)

\* the catch block after its error event: retry, counted before the retry
\* event is emitted, or give up
ErrorEmitted(s, i, err) ==
    IF s.raised # NoErr
    THEN Reject(s, i, s.raised)
    ELSE IF RetryAllowed(s.retryCount, s.options.retryTimes)
    THEN RetryEmitted(emit([s EXCEPT !.retryCount = @ + 1], i, "retry", err,
                           s.retryCount + 1), i)
    ELSE Reject([s EXCEPT !.retryCount = 0], i, err)

\* the catch block emitting retry before it increments the counter
CatchBlock_EmitBeforeIncrement(s, i, err) ==
    ErrorEmitted_EmitBeforeIncrement(emit(s, i, "error", err, 0), i, err)

\* the catch block of check() in invocation i, for error `err`
CatchBlock(s, i, err) == ErrorEmitted(emit(s, i, "error", err, 0), i, err)

\* an exception raised inside the try block of check() enters its catch block
Catch(s, i) == CatchBlock([s EXCEPT !.raised = NoErr], i, s.raised)

\* invocation i calls fetch
Fetched(s, i) == [s EXCEPT !.calls[i] = Observe(@, "fetch", NoErr, 0)]

\* check() after its check event: fetch returns a promise (thrown = NoErr) or
\* throws `thrown` into the catch block
CheckEmitted(s, i) ==
    IF s.raised # NoErr
    THEN Catch(s, i)
    ELSE IF s.thrown = NoErr
    THEN [Fetched(s, i) EXCEPT !.calls[i].pc = "fetching", !.calls[i].asked = s.server]
    ELSE CatchBlock(Failed(Fetched(s, i), i), i, s.thrown)

\* check() that calls fetch without emitting the check event
Attempt_NoCheckEvent(s, i) == CheckEmitted(s, i)

\* check() from its entry to its first await: emit('check'), then fetch
Attempt(s, i) == CheckEmitted(emit(s, i, "check", NoErr, 0), i)

\* the response that is not ok reported at the throw and again in the catch block
ThrowHttpError_Reported(s, i) ==
    CatchBlock(Failed(emit(s, i, "error", HttpError, 0), i), i, HttpError)

\* if (!response.ok) throw error: not reported here, the catch block does it
ThrowHttpError(s, i) == CatchBlock(Failed(s, i), i, HttpError)

\* the result r of compareVersion is stored for invocation i
Stored(s, i, newTag, r) ==
    [s EXCEPT !.versionTag = r.versionTag,
              !.calls[i].marker = newTag,
              !.calls[i].info = r.info]

\* check() returns the VersionInfo, unless an exception is in flight
Returned(s, i) == IF s.raised # NoErr THEN Catch(s, i) ELSE Settle(s, i, "resolved")

\* check() with the result r of compareVersion: emit update when available
Compared(s, i, r) ==
    Returned(IF r.info.updateAvailable THEN emit(s, i, "update", NoErr, 0) ELSE s, i)

\* check() after an ok response carrying marker newTag: compare, emit update
\* when available, return the VersionInfo. The retry counter is not written.
SuccessPath(s, i, newTag) ==
    Compared(Stored(s, i, newTag, compareVersion(s.versionTag, newTag)), i,
             compareVersion(s.versionTag, newTag))

Thrown == {NoErr} \cup FetchErrors

\* the record of a settled invocation is kept until the next step of check()
\* of any invocation, and dropped then
Forget(cs) == [i \in Slots |-> IF Settled(cs[i]) THEN IdleCall ELSE cs[i]]

\* the history of one invocation at a time is recorded
CanWatch(cs, watch) == watch => \A i \in Slots : InFlight(cs[i]) => ~cs[i].watched

HasFreeSlot(cs) == \E i \in Slots : ~InFlight(cs[i])
FreeSlot(cs) == CHOOSE i \in Slots : ~InFlight(cs[i]) /\ \A j \in 1..(i - 1) : InFlight(cs[j])

\* a call of check() from outside a retry chain (by start(), by the recurring
\* timer, by the user or by a callback), run to its first await
BeginCheck(s, watch) ==
    IF ~HasFreeSlot(s.calls)
    THEN [s EXCEPT !.full = TRUE]
    ELSE LET c0 == [IdleCall EXCEPT !.pc = "running",
                                    !.watched = watch,
                                    !.alone = watch /\ \A j \in Slots : ~InFlight(s.calls[j]),
                                    !.zero = watch /\ s.retryCount = 0]
             others == [j \in Slots |-> [Forget(s.calls)[j] EXCEPT !.alone = FALSE]]
             i == FreeSlot(s.calls)
         IN  Attempt([s EXCEPT !.calls = [others EXCEPT ![i] = c0]], i)

\* invocation i goes on after an await
Resume(s, i) ==
    [s EXCEPT !.calls = [Forget(s.calls) EXCEPT ![i].pc = "running", ![i].asked = 0]]

\* a check() that waits for the invocation in flight (a single-flight guard)
CheckAdmitted_SingleFlight(cs) == \A i \in Slots : ~InFlight(cs[i])

\* check() has no guard on entry: a call made while another invocation is in
\* flight runs like any other
CheckAdmitted(cs) == TRUE

\* start() without its guard
StartIsNoOp_Never(t) == FALSE

\* the guard of start(): if (this.timer) return
StartIsNoOp(t) == t

\* stop() acting whether or not the timer is armed
StopActs_Always(t) == TRUE

\* the guard of stop(): if (this.timer) { ... }
StopActs(t) == t

\* this.timer = setInterval(...): the interval of a handle that is overwritten
\* stays armed
Arm(s) ==
    Mark([s EXCEPT !.leaked = IF s.timer THEN @ + 1 ELSE @, !.timer = TRUE], "arm")

\* start() after its start event: this.check(), not awaited, then setInterval
StartEmitted(s, watch) ==
    IF s.raised # NoErr THEN s ELSE Arm(BeginCheck(Mark(s, "check"), watch))

\* start(); its check() is recorded when `watch`
start(s, watch) ==
    IF StartIsNoOp(s.timer)
    THEN s
    ELSE StartEmitted(emit(s, 0, "start", NoErr, 0), watch)

\* stop() that also abandons the invocations in flight
stop_Cancelling(s) ==
    IF StopActs(s.timer)
    THEN emit(Mark([s EXCEPT !.timer = FALSE,
                             !.calls = [i \in Slots |-> IdleCall],
                             !.retryCount = 0], "clear"),
              0, "stop", NoErr, 0)
    ELSE s

\* stop()
stop(s) ==
    IF StopActs(s.timer)
    THEN emit(Mark([s EXCEPT !.timer = FALSE], "clear"), 0, "stop", NoErr, 0)
    ELSE s

----------------------------------------------------------------------------
(* Operations *)

\* the step ends: the fields are as the step left them; an exception that
\* left start() or stop() reached the caller
Commit(s) ==
    /\ ~s.full
    /\ versionTag' = s.versionTag
    /\ timer' = s.timer
    /\ leaked' = s.leaked
    /\ retryCount' = s.retryCount
    /\ eventListeners' = [e \in EventTypes |-> SelectLive(s.eventListeners[e])]
    /\ calls' = s.calls
    /\ budget' = s.budget
    /\ log' = IF s.raised # NoErr THEN s.log \o <<Entry("throw", "", "", <<>>, <<>>, <<>>)>>
              ELSE s.log
    /\ UNCHANGED <<supplied, options, returned, server>>

\* the fields as the constructor leaves them
Constructed(s) ==
    /\ calls = s.calls
    /\ retryCount = s.retryCount
    /\ timer = s.timer
    /\ log = s.log

\* the state the constructor leaves when called with an object of `space`:
\* options merged, start() run when autoStart
Construct(space) ==
    /\ supplied \in space
    /\ options = Merge(supplied)
    /\ returned = <<>>
    /\ versionTag = Null
    /\ eventListeners = [e \in EventTypes |-> <<>>]
    /\ everResolved = FALSE
    /\ budget = MaxReentry
    /\ leaked = 0
    /\ server = 1
    /\ LET s0 == [options |-> options, versionTag |-> Null, timer |-> FALSE,
                  leaked |-> 0, retryCount |-> 0,
                  eventListeners |-> [e \in EventTypes |-> <<>>],
                  calls |-> [i \in Slots |-> IdleCall], budget |-> MaxReentry,
                  thrown |-> NoErr, raised |-> NoErr, full |-> FALSE, log |-> <<>>,
                  server |-> 1]
       IN  IF options.autoStart
           THEN \E thrown \in Thrown, watch \in BOOLEAN :
                  Constructed(start([s0 EXCEPT !.thrown = thrown], watch))
           ELSE calls = s0.calls /\ retryCount = 0 /\ timer = FALSE /\ log = <<>>

Init == Construct(OptionSpace)

\* the application calls start()
CallStart(thrown, watch) ==
    /\ StartIsNoOp(timer) \/ (CanWatch(calls, watch) /\ CheckAdmitted(calls))
    /\ Commit(start(State(thrown), watch))
    /\ UNCHANGED everResolved

\* the application calls stop()
CallStop ==
    /\ Commit(stop(State(NoErr)))
    /\ UNCHANGED everResolved

\* the setInterval callback: () => this.check()
TimerTick(thrown, watch) ==
    /\ timer \/ leaked > 0
    /\ CanWatch(calls, watch)
    /\ CheckAdmitted(calls)
    /\ Commit(BeginCheck(State(thrown), watch))
    /\ UNCHANGED everResolved

\* the application calls check()
CallCheck(thrown, watch) ==
    /\ CanWatch(calls, watch)
    /\ CheckAdmitted(calls)
    /\ Commit(BeginCheck(State(thrown), watch))
    /\ UNCHANGED everResolved

\* the fetch promise of invocation i rejects with err
FetchReject(i, err) ==
    /\ calls[i].pc = "fetching"
    /\ Commit(CatchBlock(Failed(Resume(State(NoErr), i), i), i, err))
    /\ UNCHANGED everResolved

\* the fetch promise of invocation i resolves with a response that is not ok
FetchNotOk(i) ==
    /\ calls[i].pc = "fetching"
    /\ Commit(ThrowHttpError(Resume(State(NoErr), i), i))
    /\ UNCHANGED everResolved

\* the fetch promise of invocation i resolves with an ok response with headers h
FetchOk(i, h) ==
    /\ calls[i].pc = "fetching"
    /\ Commit(SuccessPath(Resume(State(NoErr), i), i,
                          ExtractMarker(options.compareStrategy, h)))
    /\ everResolved' = TRUE

\* the headers of a response of the server serving version n
ServedHeaders(n) == [etag |-> Versions[n], lastModified |-> Null, xVersion |-> Null]

\* the fetch promise of invocation i resolves with the ok response the server
\* gave when the request was issued
FetchServed(i) ==
    /\ calls[i].pc = "fetching"
    /\ Commit(SuccessPath(Resume(State(NoErr), i), i,
                          ExtractMarker(options.compareStrategy,
                                        ServedHeaders(calls[i].asked))))
    /\ everResolved' = TRUE

\* a new version is deployed on the server
ServerAdvance ==
    /\ server < MaxVersions
    /\ server' = server + 1
    /\ UNCHANGED <<supplied, options, returned, versionTag, timer, leaked, retryCount,
                   eventListeners, calls, budget, everResolved, log>>

\* the retry timeout of invocation i elapses: return this.check()
BackoffElapse(i, thrown) ==
    /\ calls[i].pc = "backoff"
    /\ Commit(Attempt(Resume(State(thrown), i), i))
    /\ UNCHANGED everResolved

\* getOptions() returning this.options itself
getOptions_SameObject(o) == [obj |-> o, same |-> TRUE]

\* getOptions(): { ...this.options }, an object of its own (same: it is the
\* object this.options)
getOptions(o) == [obj |-> o, same |-> FALSE]

\* the application calls getOptions()
CallGetOptions ==
    /\ returned' = <<getOptions(options)>>
    /\ UNCHANGED <<supplied, options, versionTag, timer, leaked, retryCount,
                   eventListeners, calls, budget, everResolved, log, server>>

\* the application assigns field f of the object getOptions() returned
AssignReturned(f, v) ==
    /\ returned # <<>>
    /\ returned' = <<[returned[1] EXCEPT !.obj[f] = v]>>
    /\ options' = IF returned[1].same THEN [options EXCEPT ![f] = v] ELSE options
    /\ UNCHANGED <<supplied, versionTag, timer, leaked, retryCount,
                   eventListeners, calls, budget, everResolved, log, server>>

Registered(el) == {p \in EventTypes \X AllCallbacks : p[2] \in Members(el[p[1]])}

\* the application calls on(event, callback), holding at most `most`
\* registrations
CallOn(event, callback, most) ==
    /\ Cardinality(Registered(eventListeners) \cup {<<event, callback>>}) <= most
    /\ Commit(on(State(NoErr), event, callback))
    /\ UNCHANGED everResolved

\* the application calls off(event, callback)
CallOff(event, callback) ==
    /\ Commit(off(State(NoErr), event, callback))
    /\ UNCHANGED everResolved

\* the fetch of invocation i settles, one way or another
Respond(i) ==
    \/ \E err \in FetchErrors : FetchReject(i, err)
    \/ FetchNotOk(i)
    \/ \E h \in Headers : FetchOk(i, h)

\* start, stop, check, the timer, the network and the retry timeouts
CheckNext ==
    \/ \E thrown \in Thrown, watch \in BOOLEAN : CallStart(thrown, watch)
    \/ CallStop
    \/ \E thrown \in Thrown, watch \in BOOLEAN : TimerTick(thrown, watch)
    \/ \E thrown \in Thrown, watch \in BOOLEAN : CallCheck(thrown, watch)
    \/ \E i \in Slots : Respond(i)
    \/ \E i \in Slots, thrown \in Thrown : BackoffElapse(i, thrown)

Next ==
    \/ CheckNext
    \/ \E e \in EventTypes, cb \in Callbacks : CallOn(e, cb, MaxListeners)
    \/ \E e \in EventTypes, cb \in Callbacks : CallOff(e, cb)

\* every operation
Spec == Init /\ [][Next]_vars

\* the instance with no listener registered
CheckSpec == Init /\ [][CheckNext]_vars

\* every operation, on an instance configured with at most one retry
ListenerInit == Init /\ options.retryTimes <= 1
ListenerSpec == ListenerInit /\ [][Next]_vars

\* no invocation of check() is in flight
Quiet == \A i \in Slots : ~InFlight(calls[i])

\* an instance constructed idle with one retry, whose callbacks return or
\* throw, used by an application that begins a check when none is in flight;
\* every check is recorded
EmitInit == Init /\ options.retryTimes = 1 /\ ~options.autoStart
EmitNext ==
    \/ \E thrown \in Thrown : Quiet /\ CallStart(thrown, TRUE)
    \/ CallStop
    \/ \E thrown \in Thrown : Quiet /\ TimerTick(thrown, TRUE)
    \/ \E thrown \in Thrown : Quiet /\ CallCheck(thrown, TRUE)
    \/ \E i \in Slots : Respond(i)
    \/ \E i \in Slots, thrown \in Thrown : BackoffElapse(i, thrown)
    \/ \E e \in EventTypes, cb \in Callbacks \cup Throwing : CallOn(e, cb, MaxHandlers)
    \/ \E e \in EventTypes, cb \in Callbacks \cup Throwing : CallOff(e, cb)
EmitSpec == EmitInit /\ [][EmitNext]_vars

\* an instance constructed idle with one retry, whose callbacks return or
\* call on() or off() for the check and stop events, used by an application
\* that begins a check when none is in flight; every check is recorded
RegistryEvents == {"check", "stop"}
RegistryNext ==
    \/ \E thrown \in Thrown : Quiet /\ CallStart(thrown, TRUE)
    \/ CallStop
    \/ \E thrown \in Thrown : Quiet /\ TimerTick(thrown, TRUE)
    \/ \E thrown \in Thrown : Quiet /\ CallCheck(thrown, TRUE)
    \/ \E i \in Slots : Respond(i)
    \/ \E i \in Slots, thrown \in Thrown : BackoffElapse(i, thrown)
    \/ \E e \in RegistryEvents, cb \in Callbacks \cup Registering :
           CallOn(e, cb, MaxHandlers)
    \/ \E e \in RegistryEvents, cb \in Callbacks \cup Registering : CallOff(e, cb)
RegistrySpec == EmitInit /\ [][RegistryNext]_vars

\* an instance constructed idle with one retry, with callbacks that call
\* start(), stop() or check() from the start, stop and check events, used by an
\* application that begins a check when none is in flight; every check it
\* begins is recorded
LifecycleEvents == {"start", "stop", "check"}
LifecycleNext ==
    \/ \E thrown \in Thrown : Quiet /\ CallStart(thrown, TRUE)
    \/ CallStop
    \/ \E thrown \in Thrown : Quiet /\ TimerTick(thrown, TRUE)
    \/ \E thrown \in Thrown : Quiet /\ CallCheck(thrown, TRUE)
    \/ \E i \in Slots : Respond(i)
    \/ \E i \in Slots, thrown \in Thrown : BackoffElapse(i, thrown)
    \/ \E e \in LifecycleEvents, cb \in Calling : CallOn(e, cb, MaxListeners)
    \/ \E e \in LifecycleEvents, cb \in Calling : CallOff(e, cb)
LifecycleSpec == EmitInit /\ [][LifecycleNext]_vars

\* an instance constructed idle with at most one retry, for each strategy, used by an
\* application that begins a check when none is in flight
MarkerNext ==
    \/ \E thrown \in Thrown : Quiet /\ CallCheck(thrown, TRUE)
    \/ \E i \in Slots : Respond(i)
    \/ \E i \in Slots, thrown \in Thrown : BackoffElapse(i, thrown)
MarkerInit == Construct(MarkerSpace)
MarkerSpec == MarkerInit /\ [][MarkerNext]_vars

\* an instance constructed with any options object, whose application reads
\* the configuration, assigns fields of the object it got, and calls start()
\* and stop()
ConfigInit == Construct(ConfigSpace)
ConfigNext ==
    \/ CallGetOptions
    \/ \E f \in DOMAIN DEFAULT_OPTIONS, full \in Supplied : AssignReturned(f, full[f])
    \/ \E thrown \in Thrown : CallStart(thrown, FALSE)
    \/ CallStop
ConfigSpec == ConfigInit /\ [][ConfigNext]_vars

\* an instance constructed idle with one retry, whose application calls
\* check() at any time, against a server whose version moves forward; a
\* response carries the version served when its request was issued
OrderNext ==
    \/ \E thrown \in Thrown, watch \in BOOLEAN : CallCheck(thrown, watch)
    \/ \E i \in Slots : FetchServed(i)
    \/ \E i \in Slots, err \in FetchErrors : FetchReject(i, err)
    \/ \E i \in Slots, thrown \in Thrown : BackoffElapse(i, thrown)
    \/ ServerAdvance
OrderSpec == EmitInit /\ [][OrderNext]_vars

\* CheckSpec where every fetch eventually settles and every retry timeout
\* eventually elapses
LiveSpec ==
    /\ CheckSpec
    /\ \A i \in Slots : WF_vars(Respond(i))
    /\ \A i \in Slots : WF_vars(\E thrown \in Thrown : BackoffElapse(i, thrown))

----------------------------------------------------------------------------
(* Claims *)

InFlightSet == {i \in Slots : InFlight(calls[i])}
Watched == {i \in Slots : calls[i].watched}

\* C1: whenever no check() invocation is in flight the retry counter is 0;
\* in particular it is 0 after a check() that resolved after retries.
C1_CounterZeroWhenIdle == InFlightSet = {} => retryCount = 0

\* C2: a check() that ran with no other invocation in flight and rejected
\* made retryTimes + 1 attempts and emitted exactly retryTimes retry events,
\* whatever checks ran before it.
C2_FullRetryBudget ==
    \A i \in Watched :
        calls[i].alone /\ calls[i].pc = "rejected"
            => /\ Len(calls[i].retries) = options.retryTimes
               /\ calls[i].checks = options.retryTimes + 1

\* C3: no check() invocation emits more than retryTimes retry events or makes
\* more than retryTimes + 1 attempts, under every interleaving of invocations.
C3_BoundedRetries ==
    \A i \in Watched :
        /\ Len(calls[i].retries) <= options.retryTimes
        /\ calls[i].checks <= options.retryTimes + 1

\* C4 as claimed: in no reachable state are two check() invocations in flight.
C4_AtMostOneInFlight == Cardinality(InFlightSet) <= 1

\* C4 as amended: invocations are not mutually excluded. While an invocation
\* is in flight a manual check() is admitted and begins another one at once,
\* and so does a tick of the timer while it is armed; both are then in flight
\* together.
C4_ChecksOverlap ==
    InFlightSet # {} /\ HasFreeSlot(calls)
        => /\ CanWatch(calls, FALSE)
           /\ CheckAdmitted(calls)
           /\ LET s == BeginCheck(State(NoErr), FALSE)
              IN  /\ ~s.full
                  /\ Cardinality({i \in Slots : InFlight(s.calls[i])})
                         = Cardinality(InFlightSet) + 1

\* C4 witness: two invocations await their fetch or backoff at the same time,
\* one of them begun by the timer or by the user while the other was in flight
C4_TwoInFlight ==
    /\ Cardinality(InFlightSet) = 2
    /\ \E i \in Watched : ~calls[i].alone

\* C5: every check() invocation eventually settles, whatever other
\* invocations are begun meanwhile.
C5_EveryCheckSettles == \A i \in Slots : InFlight(calls[i]) ~> ~InFlight(calls[i])

\* invocation i resolves in this step
Resolves(i) == calls[i].watched /\ calls[i].pc = "fetching" /\ calls'[i].pc = "resolved"

\* C6: a successful check reports updateAvailable exactly when the stored and
\* the extracted marker are both non-null and differ; it then returns the
\* old and the new marker, stores the new one and emits one update event;
\* otherwise it emits no update event.
C6_UpdateIffMarkerChanged ==
    [][\A i \in Slots : Resolves(i) =>
          LET c == calls'[i]
          IN  /\ c.info.updateAvailable
                   <=> (versionTag # Null /\ c.marker # Null /\ c.marker # versionTag)
              /\ c.info.updateAvailable
                   => /\ c.info.currentVersion = versionTag
                      /\ c.info.newVersion = c.marker
                      /\ versionTag' = c.marker
                      /\ c.updates = calls[i].updates + 1
              /\ ~c.info.updateAvailable => c.updates = calls[i].updates]_vars

\* C6 witness: a check found marker "v1" stored and "" in the response and
\* resolved with an update
C6_UpdateReported ==
    \E i \in Watched :
        /\ calls[i].pc = "resolved"
        /\ calls[i].info = [currentVersion |-> "v1", newVersion |-> "",
                            updateAvailable |-> TRUE]
        /\ calls[i].updates = 1
        /\ versionTag = ""

\* C7: the first check of an instance to resolve reports no update, emits no
\* update event and leaves the extracted marker stored, null included.
C7_FirstCheckSeeds ==
    [][~everResolved /\ everResolved' =>
          \A i \in Slots : Resolves(i) =>
              /\ ~calls'[i].info.updateAvailable
              /\ calls'[i].updates = 0
              /\ versionTag' = calls'[i].marker]_vars

\* C7 witness: a check resolved on a null stored marker with a response that
\* carries no marker
C7_SeededWithNull ==
    \E i \in Watched :
        /\ calls[i].pc = "resolved"
        /\ calls[i].info.currentVersion = Null
        /\ calls[i].marker = Null
        /\ ~calls[i].info.updateAvailable
        /\ versionTag = Null
        /\ everResolved

\* the step is a successful check
SuccessStep == \E i \in Slots, h \in Headers : FetchOk(i, h)

\* C8 as claimed: the stored marker changes only in a successful check, and
\* every change but the one made by the first successful check of the
\* instance comes with updateAvailable and an update event.
C8_ChangeIsFirstSeedOrUpdate ==
    [][versionTag' # versionTag =>
          /\ SuccessStep
          /\ \A i \in Slots : Resolves(i) /\ everResolved =>
                 /\ calls'[i].info.updateAvailable
                 /\ calls'[i].updates = calls[i].updates + 1]_vars

\* C8 as amended: the stored marker changes only in a successful check, and
\* every change of a non-null stored marker comes with updateAvailable and
\* an update event; a null stored marker is seeded without a report, by the
\* first successful check or by a later one.
C8_ChangeIsSeedOrUpdate ==
    [][versionTag' # versionTag =>
          /\ SuccessStep
          /\ \A i \in Slots : Resolves(i) /\ versionTag # Null =>
                 /\ calls'[i].info.updateAvailable
                 /\ calls'[i].updates = calls[i].updates + 1]_vars

\* C8 witness: a check replaced the stored "" by "v1" and reported it, with a
\* listener registered
C8_MarkerReplaced ==
    /\ Registered(eventListeners) # {}
    /\ \E i \in Watched :
        /\ calls[i].pc = "resolved"
        /\ calls[i].info.currentVersion = ""
        /\ calls[i].info.updateAvailable
        /\ versionTag = "v1"

\* C9: a check with retryTimes = N > 0 that begins with the counter at 0 and
\* runs alone, fails N times and then succeeds, resolves after N + 1
\* attempts and N retry events with payloads 1, ..., N in this order.
C9_RetriesCountUp ==
    \A i \in Watched :
        /\ calls[i].alone /\ calls[i].zero
        /\ calls[i].pc = "resolved"
        /\ options.retryTimes > 0
        /\ calls[i].errors = options.retryTimes
        => /\ calls[i].retries = [k \in 1..options.retryTimes |-> k]
           /\ calls[i].checks = options.retryTimes + 1

\* C9 witness: with retryTimes = MaxRetryTimes such a check has resolved
C9_ResolvedAfterAllRetries ==
    \E i \in Watched :
        /\ calls[i].alone /\ calls[i].zero
        /\ calls[i].pc = "resolved"
        /\ options.retryTimes = MaxRetryTimes
        /\ calls[i].errors = MaxRetryTimes
        /\ Len(calls[i].retries) = MaxRetryTimes

\* C10: with retryTimes = 0 a failing check rejects with the error of its one
\* attempt, after one error event carrying it and no retry event, and the
\* retry counter is 0.
C10_NoRetryWhenDisabled ==
    options.retryTimes = 0 =>
        /\ retryCount = 0
        /\ \A i \in Watched :
               /\ calls[i].retries = <<>>
               /\ calls[i].pc = "rejected" =>
                      /\ calls[i].checks = 1
                      /\ calls[i].errors = 1
                      /\ calls[i].error = calls[i].lastErr
                      /\ calls[i].error # NoErr

\* C10 witness: with retryTimes = 0 a check has rejected with its HTTP error
C10_RejectedAtOnce ==
    /\ options.retryTimes = 0
    /\ \E i \in Watched : calls[i].pc = "rejected" /\ calls[i].error = HttpError

\* the emissions in the trace of the last step
Emissions == {k \in 1..Len(log) : log[k].kind = "emit"}
Range(seq) == {seq[k] : k \in 1..Len(seq)}

\* C11: a check() that rejects rejects with the error of its own last failed
\* attempt, the fetch error or the HTTP error, which is the payload of its
\* last error event; never with what a callback threw.
C11_RejectsWithOwnError ==
    \A i \in Watched :
        calls[i].pc = "rejected"
            => /\ calls[i].error \in FetchErrors \cup {HttpError}
               /\ calls[i].error = calls[i].lastErr

\* C11 witness: a check rejected with its HTTP error in a step whose error
\* emission invoked a callback that throws
C11_RejectedPastThrower ==
    /\ \E i \in Watched : calls[i].pc = "rejected" /\ calls[i].error = HttpError
    /\ \E k \in Emissions : log[k].event = "error" /\ "cbThrow" \in Range(log[k].invoked)

\* C12: the error events of an invocation are as many as its failed attempts:
\* every check event but that of an attempt still awaiting its fetch, or of
\* the attempt that succeeded, was followed by one error event.
C12_OneErrorPerFailure ==
    \A i \in Watched :
        /\ calls[i].errors = calls[i].fails
        /\ calls[i].errors =
               calls[i].checks - (IF calls[i].pc \in {"fetching", "resolved"} THEN 1 ELSE 0)

\* C12 witness: a check resolved after a rejected fetch and a response that
\* was not ok, with two error events
C12_TwoFailuresThenSuccess ==
    \E i \in Watched :
        /\ calls[i].pc = "resolved"
        /\ calls[i].fails = 2
        /\ calls[i].errors = 2
        /\ calls[i].lastErr = HttpError

\* the fields of the instance a step of check(), start() or stop() leaves
Core(s) == <<s.versionTag, s.timer, s.leaked, s.retryCount, s.calls, s.raised, s.full>>
\* the state of the instance with no callback registered
Unobserved(s) == [s EXCEPT !.eventListeners = [e \in EventTypes |-> <<>>]]

\* C13: a callback that throws is passed over. Every emission invokes each
\* callback registered for its event, whatever the ones before it did; no
\* exception leaves start() or stop(); and start(), stop(), a check() and
\* each continuation of a check() in flight leave the timer, the retry
\* counter, the stored marker and the invocations as they would with no
\* callback registered.
C13_ThrowingCallbackHarmless ==
    /\ \A k \in 1..Len(log) : log[k].kind # "throw"
    /\ \A k \in Emissions :
           Range(log[k].before) \cap Range(log[k].after) \subseteq Range(log[k].invoked)
    /\ \A thrown \in Thrown :
           LET s == State(thrown)
               q == Unobserved(s)
           IN  /\ Core(start(s, FALSE)) = Core(start(q, FALSE))
               /\ Core(stop(s)) = Core(stop(q))
               /\ Core(BeginCheck(s, FALSE)) = Core(BeginCheck(q, FALSE))
               /\ \A i \in Slots :
                      /\ calls[i].pc = "backoff"
                           => Core(Attempt(Resume(s, i), i)) = Core(Attempt(Resume(q, i), i))
                      /\ calls[i].pc = "fetching"
                           => /\ Core(CatchBlock(Failed(Resume(s, i), i), i, "FetchError"))
                                   = Core(CatchBlock(Failed(Resume(q, i), i), i, "FetchError"))
                              /\ Core(ThrowHttpError(Resume(s, i), i))
                                   = Core(ThrowHttpError(Resume(q, i), i))
                              /\ \A tag \in HeaderValues :
                                     Core(SuccessPath(Resume(s, i), i, tag))
                                         = Core(SuccessPath(Resume(q, i), i, tag))

\* C13 witness: an emission invoked a callback that throws and then the
\* callback registered after it
C13_ThrowerThenNext ==
    \E k \in Emissions : log[k].invoked = <<"cbThrow", "cb1">>

\* the callbacks a callback registered for `event` during the last step
Added(event) ==
    {log[k].cb : k \in {j \in 1..Len(log) : log[j].kind = "on" /\ log[j].event = event}}
NoDuplicates(seq) == \A j, k \in 1..Len(seq) : seq[j] = seq[k] => j = k

\* C14: an emission invokes every callback registered for its event when it
\* began, no callback twice, and none that was not registered for the event
\* then or during it; also when a callback calls on() or off().
C14_EachRegisteredOnce ==
    \A k \in Emissions :
        /\ NoDuplicates(log[k].invoked)
        /\ Range(log[k].before) \subseteq Range(log[k].invoked)
        /\ Range(log[k].invoked) \subseteq Range(log[k].before) \cup Added(log[k].event)

\* the trace tr from entry k on invokes only callbacks registered for the
\* event at that moment, reg being the registrations before entry k
RECURSIVE InvokesRegistered(_, _, _)
InvokesRegistered(tr, k, reg) ==
    IF k > Len(tr)
    THEN TRUE
    ELSE LET x == tr[k]
         IN  CASE x.kind = "on" ->
                    InvokesRegistered(tr, k + 1, [reg EXCEPT ![x.event] = @ \cup {x.cb}])
               [] x.kind = "off" ->
                    InvokesRegistered(tr, k + 1, [reg EXCEPT ![x.event] = @ \ {x.cb}])
               [] x.kind = "call" ->
                    x.cb \in reg[x.event] /\ InvokesRegistered(tr, k + 1, reg)
               [] OTHER -> InvokesRegistered(tr, k + 1, reg)

\* C15: off(event, cb) removes cb from the callbacks of event and changes
\* nothing else, registered or not, and raises nothing; and no emission
\* invokes a callback that is not registered for its event at that moment:
\* one removed by off() is not invoked again until on() registers it again.
C15_OffUnregisters ==
    /\ [](\A e \in EventTypes, cb \in AllCallbacks :
             LET s == off(State(NoErr), e, cb)
             IN  /\ [x \in EventTypes |-> SelectLive(s.eventListeners[x])]
                       = [eventListeners EXCEPT ![e] = SelectSeq(@, LAMBDA x : x # cb)]
                 /\ Core(s) = Core(State(NoErr))
                 /\ s.log = <<>>)
    /\ [][InvokesRegistered(log', 1, [e \in EventTypes |-> Range(eventListeners[e])])]_vars

\* C15 witness: an emission of check began with cbOff and cb1 registered;
\* cbOff called off(check, cb1) and cb1 was not invoked
C15_RemovedNotInvoked ==
    \E k \in Emissions :
        /\ log[k].event = "check"
        /\ log[k].before = <<"cbOff", "cb1">>
        /\ log[k].invoked = <<"cbOff">>
        /\ eventListeners["check"] = <<"cbOff">>

\* the intervals armed for the instance
ArmedIntervals == (IF timer THEN 1 ELSE 0) + leaked
\* the entries of a kind, and the emissions of an event, in a trace
OfKind(tr, kind) == {k \in 1..Len(tr) : tr[k].kind = kind}
Emitted(tr, event) == {k \in OfKind(tr, "emit") : tr[k].event = event}

\* C16: start() on a running checker emits nothing, begins no check and arms
\* no timer; and at most one interval is armed for the instance in every
\* reachable state.
C16_StartIdempotent ==
    /\ timer => \A thrown \in Thrown :
                    LET s == start(State(thrown), FALSE)
                    IN  Core(s) = Core(State(thrown)) /\ s.log = <<>>
    /\ ArmedIntervals <= 1

\* C17: stop() on a running checker clears the interval, sets the timer
\* state to false and then emits one stop event; where a callback of that
\* event starts the checker again, every stop() that acts does so. stop() on
\* a checker that is not running emits nothing, raises nothing and changes
\* nothing; the timer state stays false.
C17_StopIdempotent ==
    [][CallStop =>
          IF timer
          THEN /\ log'[1].kind = "clear"
               /\ log'[Len(log')].kind = "emit" /\ log'[Len(log')].event = "stop"
               /\ Cardinality(Emitted(log', "stop")) = Cardinality(OfKind(log', "clear"))
               /\ OfKind(log', "throw") = {}
               /\ budget' = budget
                     => /\ ~timer'
                        /\ leaked' = leaked
                        /\ Cardinality(Emitted(log', "stop")) = 1
          ELSE /\ log' = <<>>
               /\ UNCHANGED <<options, versionTag, timer, leaked, retryCount,
                              eventListeners, calls, budget, everResolved>>]_vars

\* C17 witness: stop() has stopped a running checker, with one stop event
C17_Stopped ==
    /\ ~timer
    /\ Len(log) = 3
    /\ log[1].kind = "clear"
    /\ log[2].kind = "begin" /\ log[2].event = "stop"
    /\ log[3].kind = "emit" /\ log[3].event = "stop"

\* C18: on a checker that is not running no timer-triggered check() begins.
C18_NoTickAfterStop ==
    ~timer => ~ENABLED (\E thrown \in Thrown, watch \in BOOLEAN : TimerTick(thrown, watch))

\* what the pending fetch or backoff of invocation i leads to: after the
\* backoff the next attempt, with its check event and, when fetch throws, its
\* error event; after a response that is not ok the error event and the retry
\* event with the counter incremented, or the rejection; after an ok response
\* the update event when there is one, and the result
GoesOn(i) ==
    /\ calls[i].pc = "backoff" /\ calls[i].checks < MaxCount
          => \A thrown \in Thrown :
                LET s == Attempt(Resume(State(thrown), i), i)
                IN  \/ s.full
                    \/ /\ s.calls[i].checks = calls[i].checks + 1
                       /\ thrown = NoErr => s.calls[i].pc = "fetching"
                       /\ thrown # NoErr => s.calls[i].errors = calls[i].errors + 1
    /\ calls[i].pc = "fetching"
          => /\ LET s == ThrowHttpError(Resume(State(NoErr), i), i)
                IN  /\ s.calls[i].errors = calls[i].errors + 1
                    /\ IF RetryAllowed(retryCount, options.retryTimes)
                       THEN /\ s.calls[i].pc = "backoff"
                            /\ s.calls[i].retries = Append(calls[i].retries, retryCount + 1)
                       ELSE s.calls[i].pc = "rejected"
             /\ \A h \in Headers :
                   LET s == SuccessPath(Resume(State(NoErr), i), i,
                                        ExtractMarker(options.compareStrategy, h))
                   IN  /\ s.calls[i].pc = "resolved"
                       /\ s.calls[i].updates =
                             calls[i].updates + IF s.calls[i].info.updateAvailable THEN 1 ELSE 0

\* C19: stop() leaves every invocation that awaits its fetch or its backoff
\* as it is, and, the calls its callbacks make apart, the retry counter, the
\* stored marker and the invocations; and on a checker that is stopped such an
\* invocation goes on to its remaining attempts and events.
C19_StopLeavesChecksInFlight ==
    /\ [](~timer => \A i \in Watched : GoesOn(i))
    /\ [][CallStop =>
             /\ \A i \in Slots :
                    InFlight(calls[i])
                       => [calls'[i] EXCEPT !.alone = calls[i].alone] = calls[i]
             /\ budget' = budget
                   => /\ retryCount' = retryCount
                      /\ versionTag' = versionTag
                      /\ calls' = calls]_vars

\* C19 witness: stop() has stopped the checker while a check that has failed
\* once awaits its retry backoff
C19_StoppedDuringBackoff ==
    /\ ~timer
    /\ Emitted(log, "stop") # {}
    /\ \E i \in Watched : calls[i].pc = "backoff" /\ calls[i].retries = <<1>>

\* C20: start() on a checker that is not running emits one start event,
\* then begins one check, then arms the timer, the calls its callbacks make
\* apart; and while the checker runs one interval is armed, so that one
\* check() begins per elapsed checkInterval.
C20_StartThenOneCheckPerInterval ==
    [][/\ (~timer /\ budget' = budget
              /\ \E thrown \in Thrown, watch \in BOOLEAN : CallStart(thrown, watch))
          => /\ log'[Len(log')].kind = "arm"
             /\ Cardinality(Emitted(log', "start")) = 1
             /\ Cardinality(OfKind(log', "check")) = 1
             /\ Cardinality(OfKind(log', "arm")) = 1
             /\ \A j \in Emitted(log', "start"), k \in OfKind(log', "check") : j < k
             /\ timer'
       /\ timer' => leaked' = 0]_vars

\* the marker the table gives for a strategy and the headers of a response,
\* where a header is present when get() does not return null
TableMarker(strategy, h) ==
    CASE strategy = "etag" -> h.etag
      [] strategy = "last-modified" -> h.lastModified
      [] strategy = "custom" -> IF h.xVersion # Null THEN h.xVersion ELSE h.etag
      [] OTHER -> IF h.etag # Null THEN h.etag ELSE h.lastModified

\* C21: the marker check() extracts from an ok response is the one of the
\* table, for every strategy and every combination of absent, empty and
\* non-empty ETag, Last-Modified and x-version headers.
C21_MarkerTable ==
    [][\A i \in Watched, h \in Headers :
          FetchOk(i, h) => calls'[i].marker = TableMarker(options.compareStrategy, h)]_vars

\* the documented defaults, and the configuration they give with the
\* supplied fields
Documented ==
    [checkInterval |-> 60000, versionUrl |-> "/", compareStrategy |-> "etag",
     autoStart |-> TRUE, retryTimes |-> 3, retryInterval |-> 3000]
Expected ==
    [f \in DOMAIN Documented \cup DOMAIN supplied |->
        IF f \in DOMAIN supplied THEN supplied[f] ELSE Documented[f]]

\* C22: right after construction the timer is armed exactly when the merged
\* autoStart is true; the configuration is, and stays whatever is assigned to
\* an object getOptions() returned, the documented defaults overridden by the
\* supplied fields; and getOptions() returns it.
C22_OptionsMerged ==
    /\ timer <=> Expected.autoStart
    /\ [](options = Expected)
    /\ [][CallGetOptions => returned'[1].obj = Expected]_vars

\* C22 witness: an instance constructed with retryTimes only, so started by
\* the default autoStart, whose application has assigned another value to a
\* field of the object getOptions() returned
C22_CopyAssigned ==
    /\ DOMAIN supplied = {"retryTimes"}
    /\ timer
    /\ returned # <<>>
    /\ returned[1].obj.retryTimes # options.retryTimes

\* C23: a check() that rejected, every attempt of which failed, has itself
\* made retryTimes retries, whatever other invocations were in flight.
C23_IsolatedRetryBudget ==
    \A i \in Watched :
        calls[i].pc = "rejected" /\ calls[i].fails = calls[i].checks
            => Len(calls[i].retries) >= options.retryTimes

\* the place of a stored marker in the sequence of versions, 0 for none
Rank(tag) == IF tag = Null THEN 0 ELSE CHOOSE n \in 1..Len(Versions) : Versions[n] = tag

\* C24: against a server whose marker moves forward, the stored marker never
\* moves backward, and a response older than the stored marker emits no
\* update event, also when responses arrive in another order than their
\* requests were issued.
C24_MarkerNeverBackward ==
    [][/\ Rank(versionTag') >= Rank(versionTag)
       /\ \A i \in Watched :
              FetchServed(i) /\ calls[i].asked < Rank(versionTag)
                 => calls'[i].updates = calls[i].updates]_vars

\* the start and stop events of a trace, in the order they were emitted
Lifecycle(tr) == SelectSeq(tr, LAMBDA x : x.kind = "begin")

\* C25: start and stop events alternate, beginning with start, and the timer
\* is armed exactly after a start event that no stop event has followed: the
\* events of every step alternate, beginning with stop when the timer is
\* armed and with start when it is not, and the step leaves the timer armed
\* exactly when its last event is start; this also where callbacks of the
\* start, stop and check events call start(), stop() and check().
C25_StartStopAlternate ==
    /\ timer <=> (Lifecycle(log) # <<>>)
    /\ [][LET ev == Lifecycle(log')
          IN  /\ \A k \in 1..Len(ev) :
                    ev[k].event = IF timer <=> (k % 2 = 1) THEN "stop" ELSE "start"
              /\ timer' <=> IF ev = <<>> THEN timer ELSE ev[Len(ev)].event = "start"]_vars

\* the entries of a sequence that are `kind`
Count(seq, kind) == Cardinality({k \in 1..Len(seq) : seq[k] = kind})

\* C26: in one check() invocation every check event is followed by one call
\* of fetch, an error event follows a call of fetch, a retry event follows an
\* error event and carries its error, and the check event of the next attempt
\* follows the retry event, after the backoff; so there are as many check
\* events as calls of fetch.
C26_AttemptOrder ==
    \A i \in Watched :
        LET ev == calls[i].events
        IN  /\ \A k \in 1..Len(ev) :
                  /\ ev[k] = "check" => /\ k = 1 \/ ev[k - 1] = "retry"
                                        /\ k < Len(ev) /\ ev[k + 1] = "fetch"
                  /\ ev[k] = "fetch" => k > 1 /\ ev[k - 1] = "check"
                  /\ ev[k] = "error" => k > 1 /\ ev[k - 1] = "fetch"
                  /\ ev[k] = "retry" => k > 1 /\ ev[k - 1] = "error"
                  /\ ev[k] = "update" => k > 1 /\ ev[k - 1] = "fetch"
            /\ calls[i].echoed
            /\ Count(ev, "check") = Count(ev, "fetch")
            /\ calls[i].pc = "backoff" <=> (ev # <<>> /\ ev[Len(ev)] = "retry")

\* C26 witness: a check whose first attempt failed is awaiting the fetch of
\* its retry
C26_SecondAttempt ==
    \E i \in Watched :
        /\ calls[i].pc = "fetching"
        /\ calls[i].events = <<"check", "fetch", "error", "retry", "check", "fetch">>

\* C27: whatever the interleaving of overlapping check() invocations, the
\* retry counter stays between 0 and retryTimes, and every retry event carries
\* a retryCount between 1 and retryTimes.
C27_CounterInRange ==
    /\ retryCount \in 0..options.retryTimes
    /\ \A i \in Watched :
           \A k \in 1..Len(calls[i].retries) :
               calls[i].retries[k] \in 1..options.retryTimes

\* C27 witness: two overlapping checks are backing off, the counter stands at
\* retryTimes, and the retry event of one carried the counter already raised
\* by the other
C27_CounterFullUnderOverlap ==
    /\ retryCount = options.retryTimes
    /\ \E i \in Watched, j \in InFlightSet :
           /\ i # j
           /\ calls[i].pc = "backoff" /\ calls[i].retries = <<2>>
           /\ calls[j].pc = "backoff"

\* C28: a stored marker that is not null never becomes null again: a check
\* that succeeds with a response carrying no marker leaves the stored marker
\* as it was and reports updateAvailable false.
C28_MarkerStaysSet ==
    [][versionTag # Null =>
          /\ versionTag' # Null
          /\ \A i \in Watched, h \in Headers :
                 FetchOk(i, h) /\ ExtractMarker(options.compareStrategy, h) = Null
                     => /\ versionTag' = versionTag
                        /\ calls'[i].pc = "resolved"
                        /\ calls'[i].info.currentVersion = versionTag
                        /\ calls'[i].info.newVersion = Null
                        /\ ~calls'[i].info.updateAvailable
                        /\ calls'[i].updates = calls[i].updates]_vars

\* C28 witness: a check resolved on a response without a marker while a
\* marker was stored
C28_NoMarkerAfterSeed ==
    /\ versionTag # Null
    /\ \E i \in Watched :
           /\ calls[i].pc = "resolved"
           /\ calls[i].marker = Null
           /\ calls[i].info.currentVersion = versionTag

====
